---------------------------- MODULE Spec2Model ----------------------------
(***************************************************************************)
(* A model of StackAPI (src/main.py): a Flask application that keeps a     *)
(* dictionary of bounded integer stacks, app.stacks, each with an expiry   *)
(* time, and serves create / push / push_bulk / pop / pop_bulk / size /    *)
(* peek / destroy / list requests.  Before every request the expired       *)
(* stacks are removed (before_request).                                    *)
(*                                                                         *)
(* Every handler is a pure operator from the dictionary, the clock reading *)
(* and the request's parameters to the new dictionary and the response;    *)
(* an action of the specification is one whole request: the sweep of       *)
(* before_request, the decorator require_valid_stack_id, the view.         *)
(***************************************************************************)
EXTENDS Integers, Sequences, FiniteSets, TLC

\* ------------------------------------------------------------------ sizes
\* The program's constants, scaled down so that a full stack, a full store
\* and an expired stack are reached within a few requests.

\* main.py:15  MAX_STACK_SIZE = 1024 * 100
MAX_STACK_SIZE == 2

\* main.py:16  MAX_STACKS = 1000
MAX_STACKS == 2

\* main.py:52, 122  60 * 60 seconds, counted here in clock ticks
TTL == 2

\* main.py:124  array.array("q") holds signed 64-bit items; the model's
\* items are signed QBits-bit integers
QBits == 2

\* the clock runs from 0 to MaxTime
MaxTime == 3

QMin == -(2 ^ (QBits - 1))

QMax == (2 ^ (QBits - 1)) - 1

\* main.py:121  int(secrets.token_hex(8), 16): the identifiers the generator
\* can return; one more than a full store holds
IdSpace == 0 .. MAX_STACKS

\* the longest "values" parameter a client sends: enough to fill a stack
MaxBatch == MAX_STACK_SIZE

\* ------------------------------------------------------------- parameters
\* A query parameter as request.args.get returns it: absent (None), a text
\* that int() rejects, or the decimal text of the integer n.

Absent == [kind |-> "absent", n |-> 0]

NotInt == [kind |-> "text", n |-> 0]

IntText(n) == [kind |-> "int", n |-> n]

\* the values a client sends: both ends of the item range, one beyond each
\* end, and what is no integer
ValueParams ==
    {IntText(n) : n \in {QMin - 1, QMin, QMax, QMax + 1}} \cup {Absent, NotInt}

IdParams == {IntText(n) : n \in IdSpace} \cup {NotInt}

CountParams == {IntText(n) : n \in -1 .. (MAX_STACK_SIZE + 1)} \cup {NotInt}

\* the items of a "values" parameter between its commas
BulkItems == {IntText(n) : n \in {QMin, QMax, QMax + 1}} \cup {NotInt}

\* a "values" parameter: absent or the empty text (no item), or 1..MaxBatch
\* comma-separated items
BulkParams ==
    {<<>>} \cup UNION {[1 .. m -> BulkItems] : m \in 1 .. MaxBatch}

\* int(x) of main.py:69, 163, 219, 306: TypeError on None, ValueError on a
\* text that is no integer
ParseInt(p) == [ok |-> p.kind = "int", n |-> p.n]

\* ------------------------------------------------------------------ state

VARIABLES
    stacks,   \* app.stacks: stack_id -> [array, expiry]
    order,    \* the keys of app.stacks in the dictionary's (insertion) order
    now,      \* time.time()
    touched,  \* history: stack_id -> the time it was created or last found by
              \* a request that named it
    threads,  \* the server's worker threads: the request each one is in and
              \* the line it has reached (used when requests run concurrently)
    detached  \* entries deleted from app.stacks that a running request still
              \* holds a reference to: stack_id -> [array, expiry]

vars == <<stacks, order, now, touched, threads, detached>>

\* ---------------------------------------------------------------- helpers

\* array.append: OverflowError (nothing appended) unless the item fits
Fits(n) == QMin <= n /\ n <= QMax

ButLast(s) == SubSeq(s, 1, Len(s) - 1)

\* the dictionary's key order after the keys not in D are deleted
KeepOrder(ord, D) == SelectSeq(ord, LAMBDA k : k \in D)

\* the dictionary's key order once its keys are D: deleted keys leave, the
\* others keep their places, a new key goes last
DictOrder(ord, D) ==
    LET kept  == KeepOrder(ord, D)
        fresh == D \ {kept[i] : i \in DOMAIN kept}
    IN  IF fresh = {} THEN kept ELSE Append(kept, CHOOSE k \in fresh : TRUE)

\* what a view leaves: the dictionary and the response (status code, the
\* body's text, the integers the body prints)
Out(S, code, text, ints) ==
    [stacks |-> S, code |-> code, text |-> text, ints |-> ints]

\* the refresh applied to every stack of the dictionary
refresh_every_stack(S, stack_id, t) ==
    [k \in DOMAIN S |-> [S[k] EXCEPT !.expiry = t + TTL]]

\* main.py:50-52
refresh_stack_expiry(S, stack_id, t) ==
    [S EXCEPT ![stack_id].expiry = t + TTL]

\* the sweep with <= for the < of main.py:58
remove_expired_or_due(S, t) ==
    [k \in {j \in DOMAIN S : ~(S[j].expiry <= t)} |-> S[k]]

\* a sweep that stops after the first entry it removes
remove_first_expired(S, t) ==
    LET expired == {j \in DOMAIN S : S[j].expiry < t} IN
    IF expired = {} THEN S
    ELSE [k \in DOMAIN S \ {CHOOSE j \in expired : \A i \in expired : j <= i} |-> S[k]]

\* main.py:55-59
remove_expired_stacks(S, t) ==
    [k \in {j \in DOMAIN S : ~(S[j].expiry < t)} |-> S[k]]


\* the decorator without the refresh of main.py:76
require_valid_stack_id_lookup_only(S, t, idParam) ==
    LET p == ParseInt(idParam) IN
    IF ~p.ok
    THEN [pass |-> FALSE, stacks |-> S, stack_id |-> -1,
          code |-> 400, text |-> "Stack ID must be an integer"]
    ELSE IF p.n \notin DOMAIN S
    THEN [pass |-> FALSE, stacks |-> S, stack_id |-> p.n,
          code |-> 404, text |-> "Stack not found"]
    ELSE [pass |-> TRUE, stacks |-> S,
          stack_id |-> p.n, code |-> 0, text |-> ""]

\* main.py:67-76  the decorator up to the call of the view: the id must
\* parse and be a key of app.stacks; then the stack's expiry is refreshed
require_valid_stack_id(S, t, idParam) ==
    LET p == ParseInt(idParam) IN
    IF ~p.ok
    THEN [pass |-> FALSE, stacks |-> S, stack_id |-> -1,
          code |-> 400, text |-> "Stack ID must be an integer"]
    ELSE IF p.n \notin DOMAIN S
    THEN [pass |-> FALSE, stacks |-> S, stack_id |-> p.n,
          code |-> 404, text |-> "Stack not found"]
    ELSE [pass |-> TRUE, stacks |-> refresh_stack_expiry(S, p.n, t),
          stack_id |-> p.n, code |-> 0, text |-> ""]

\* ------------------------------------------------------------------ views

\* create that refreshes the stacks already there
create_refreshing(S, t, new_id) ==
    IF Cardinality(DOMAIN S) >= MAX_STACKS
    THEN Out(S, 400, "Maximum number of stacks reached", <<MAX_STACKS>>)
    ELSE Out([k \in DOMAIN S \cup {new_id} |->
                 IF k = new_id THEN [array |-> <<>>, expiry |-> t + TTL]
                               ELSE [S[k] EXCEPT !.expiry = t + TTL]],
             201, "", <<new_id>>)

\* create with > for the >= of main.py:118
create_off_by_one(S, t, new_id) ==
    IF Cardinality(DOMAIN S) > MAX_STACKS
    THEN Out(S, 400, "Maximum number of stacks reached", <<MAX_STACKS>>)
    ELSE Out([k \in DOMAIN S \cup {new_id} |->
                 IF k = new_id THEN [array |-> <<>>, expiry |-> t + TTL]
                               ELSE S[k]],
             201, "", <<new_id>>)

\* main.py:118-128
create(S, t, new_id) ==
    IF Cardinality(DOMAIN S) >= MAX_STACKS
    THEN Out(S, 400, "Maximum number of stacks reached", <<MAX_STACKS>>)
    ELSE Out([k \in DOMAIN S \cup {new_id} |->
                 IF k = new_id THEN [array |-> <<>>, expiry |-> t + TTL]
                               ELSE S[k]],
             201, "", <<new_id>>)

\* push without the stack.pop() of main.py:175
push_no_rollback(S, stack_id, valueParam) ==
    LET p == ParseInt(valueParam) IN
    IF ~p.ok THEN Out(S, 400, "Value must be an integer", <<>>)
    ELSE IF ~Fits(p.n) THEN Out(S, 400, "Value is too large", <<>>)
    ELSE LET S1 == [S EXCEPT ![stack_id].array = Append(@, p.n)] IN
         IF Len(S1[stack_id].array) > MAX_STACK_SIZE
         THEN Out(S1, 400, "Stack overflow", <<>>)
         ELSE Out(S1, 200, "Ok", <<>>)

\* push with >= for the > of main.py:174
push_off_by_one(S, stack_id, valueParam) ==
    LET p == ParseInt(valueParam) IN
    IF ~p.ok THEN Out(S, 400, "Value must be an integer", <<>>)
    ELSE IF ~Fits(p.n) THEN Out(S, 400, "Value is too large", <<>>)
    ELSE LET S1 == [S EXCEPT ![stack_id].array = Append(@, p.n)] IN
         IF Len(S1[stack_id].array) >= MAX_STACK_SIZE
         THEN Out([S1 EXCEPT ![stack_id].array = ButLast(@)],
                  400, "Stack overflow", <<>>)
         ELSE Out(S1, 200, "Ok", <<>>)

\* main.py:162-179
push(S, stack_id, valueParam) ==
    LET p == ParseInt(valueParam) IN
    IF ~p.ok THEN Out(S, 400, "Value must be an integer", <<>>)
    ELSE IF ~Fits(p.n) THEN Out(S, 400, "Value is too large", <<>>)
    ELSE LET S1 == [S EXCEPT ![stack_id].array = Append(@, p.n)] IN
         IF Len(S1[stack_id].array) > MAX_STACK_SIZE
         THEN Out([S1 EXCEPT ![stack_id].array = ButLast(@)],
                  400, "Stack overflow", <<>>)
         ELSE Out(S1, 200, "Ok", <<>>)

\* main.py:225-236  the loop over the parsed values
RECURSIVE push_bulk_loop(_, _, _)
push_bulk_loop(S, stack_id, values) ==
    IF values = <<>> THEN Out(S, 200, "Ok", <<>>)
    ELSE IF ~Fits(Head(values)) THEN Out(S, 400, "Value is too large", <<>>)
    ELSE LET S1 == [S EXCEPT ![stack_id].array = Append(@, Head(values))] IN
         IF Len(S1[stack_id].array) > MAX_STACK_SIZE
         THEN Out([S1 EXCEPT ![stack_id].array = ButLast(@)],
                  400, "Stack overflow", <<>>)
         ELSE push_bulk_loop(S1, stack_id, Tail(values))

\* main.py:217-219  values.split(",") and int() of every item
ParseBulk(valuesParam) ==
    [ok |-> \A i \in DOMAIN valuesParam : ParseInt(valuesParam[i]).ok,
     ns |-> [i \in DOMAIN valuesParam |-> valuesParam[i].n]]

\* push_bulk with the size of the whole batch checked before the loop
push_bulk_checked_first(S, stack_id, valuesParam) ==
    IF valuesParam = <<>> THEN Out(S, 400, "Values must be provided", <<>>)
    ELSE IF ~ParseBulk(valuesParam).ok
    THEN Out(S, 400, "All values must be integers", <<>>)
    ELSE IF Len(S[stack_id].array) + Len(valuesParam) > MAX_STACK_SIZE
    THEN Out(S, 400, "Stack overflow", <<>>)
    ELSE push_bulk_loop(S, stack_id, ParseBulk(valuesParam).ns)

\* push_bulk whose loop starts at the second item
push_bulk_from_second(S, stack_id, valuesParam) ==
    IF valuesParam = <<>> THEN Out(S, 400, "Values must be provided", <<>>)
    ELSE IF ~ParseBulk(valuesParam).ok
    THEN Out(S, 400, "All values must be integers", <<>>)
    ELSE push_bulk_loop(S, stack_id, Tail(ParseBulk(valuesParam).ns))

\* main.py:214-236
push_bulk(S, stack_id, valuesParam) ==
    IF valuesParam = <<>> THEN Out(S, 400, "Values must be provided", <<>>)
    ELSE IF ~ParseBulk(valuesParam).ok
    THEN Out(S, 400, "All values must be integers", <<>>)
    ELSE push_bulk_loop(S, stack_id, ParseBulk(valuesParam).ns)

\* pop taking the oldest item, stack.pop(0) for the stack.pop() of main.py:270
pop_oldest(S, stack_id) ==
    LET stack == S[stack_id].array IN
    IF Len(stack) <= 0 THEN Out(S, 400, "Stack underflow", <<>>)
    ELSE Out([S EXCEPT ![stack_id].array = Tail(stack)], 200, "", <<Head(stack)>>)

\* main.py:265-270
pop(S, stack_id) ==
    LET stack == S[stack_id].array IN
    IF Len(stack) <= 0 THEN Out(S, 400, "Stack underflow", <<>>)
    ELSE Out([S EXCEPT ![stack_id].array = ButLast(stack)],
             200, "", <<stack[Len(stack)]>>)

\* the popped items listed oldest first
pop_times_oldest_first(stack, count) ==
    IF count <= 0 THEN [array |-> stack, popped |-> <<>>]
    ELSE [array  |-> SubSeq(stack, 1, Len(stack) - count),
          popped |-> SubSeq(stack, Len(stack) - count + 1, Len(stack))]

\* main.py:315  [stack.pop() for _ in range(count)]: the array left and the
\* items popped, in the order popped
RECURSIVE pop_times(_, _)
pop_times(stack, count) ==
    IF count <= 0 THEN [array |-> stack, popped |-> <<>>]
    ELSE LET rest == pop_times(ButLast(stack), count - 1) IN
         [array |-> rest.array, popped |-> <<stack[Len(stack)]>> \o rest.popped]

\* pop_bulk popping what there is before it reports the underflow
pop_bulk_partial(S, stack_id, countParam) ==
    LET p     == ParseInt(countParam)
        stack == S[stack_id].array
    IN  IF ~p.ok THEN Out(S, 400, "Count must be an integer", <<>>)
        ELSE IF Len(stack) < p.n
        THEN Out([S EXCEPT ![stack_id].array = <<>>], 400, "Stack underflow", <<>>)
        ELSE LET r == pop_times(stack, p.n) IN
             Out([S EXCEPT ![stack_id].array = r.array], 200, "", r.popped)

\* main.py:305-315
pop_bulk(S, stack_id, countParam) ==
    LET p     == ParseInt(countParam)
        stack == S[stack_id].array
    IN  IF ~p.ok THEN Out(S, 400, "Count must be an integer", <<>>)
        ELSE IF Len(stack) < p.n THEN Out(S, 400, "Stack underflow", <<>>)
        ELSE LET r == pop_times(stack, p.n) IN
             Out([S EXCEPT ![stack_id].array = r.array], 200, "", r.popped)

\* main.py:340
size(S, stack_id) == Out(S, 200, "", <<Len(S[stack_id].array)>>)

\* main.py:369-374
peek(S, stack_id) ==
    LET stack == S[stack_id].array IN
    IF Len(stack) = 0 THEN Out(S, 400, "Stack is empty", <<>>)
    ELSE Out(S, 200, "", <<stack[Len(stack)]>>)

\* destroy that clears the stack and keeps its entry
destroy_emptying(S, stack_id) ==
    Out([S EXCEPT ![stack_id].array = <<>>], 200, "Ok", <<>>)

\* main.py:398-400
destroy(S, stack_id) ==
    Out([k \in DOMAIN S \ {stack_id} |-> S[k]], 200, "Ok", <<>>)

\* main.py:421  round(array_size / MAX_STACK_SIZE * 100): to the nearest
\* integer, a half to the even one
Percent(array_size) ==
    LET q == (array_size * 100) \div MAX_STACK_SIZE
        r == (array_size * 100) % MAX_STACK_SIZE
    IN  IF 2 * r < MAX_STACK_SIZE THEN q
        ELSE IF 2 * r > MAX_STACK_SIZE THEN q + 1
        ELSE IF q % 2 = 0 THEN q ELSE q + 1

\* main.py:417-422  one line per stack, in the dictionary's order:
\* "{i}: {array_size}/{MAX_STACK_SIZE} ({percent}%)"
RECURSIVE ListLines(_, _, _)
ListLines(S, ord, i) ==
    IF i >= Len(ord) THEN <<>>
    ELSE LET array_size == Len(S[ord[i + 1]].array) IN
         <<i, array_size, MAX_STACK_SIZE, Percent(array_size)>>
             \o ListLines(S, ord, i + 1)

\* main.py:415-423  "{stack_count}/{MAX_STACKS} stacks" and the lines
list_stacks(S, ord) ==
    Out(S, 200, "stacks", <<Cardinality(DOMAIN S), MAX_STACKS>> \o ListLines(S, ord, 0))

\* main.py:97
home(S) == Out(S, 200, "API is working", <<>>)

\* ----------------------------------------------------------------- routes
\* One request each, as Flask serves it: before_request (main.py:426-429),
\* then the route's function; for the routes under @require_valid_stack_id
\* that is the decorator's wrapper, which calls the view.  S is app.stacks
\* and ord its key order when the request arrives, t the clock's reading.

\* main.py:426-429
before_request(S, t) == remove_expired_stacks(S, t)

\* main.py:71, 74  the wrapper's answer when the lookup fails
Refused(w) == Out(w.stacks, w.code, w.text, <<>>)

\* main.py:100-128
route_create(S, t, new_id) == create(before_request(S, t), t, new_id)

\* main.py:131-179
route_push(S, t, idParam, valueParam) ==
    LET w == require_valid_stack_id(before_request(S, t), t, idParam) IN
    IF w.pass THEN push(w.stacks, w.stack_id, valueParam) ELSE Refused(w)

\* main.py:182-236
route_push_bulk(S, t, idParam, valuesParam) ==
    LET w == require_valid_stack_id(before_request(S, t), t, idParam) IN
    IF w.pass THEN push_bulk(w.stacks, w.stack_id, valuesParam) ELSE Refused(w)

\* main.py:239-270
route_pop(S, t, idParam) ==
    LET w == require_valid_stack_id(before_request(S, t), t, idParam) IN
    IF w.pass THEN pop(w.stacks, w.stack_id) ELSE Refused(w)

\* main.py:273-315
route_pop_bulk(S, t, idParam, countParam) ==
    LET w == require_valid_stack_id(before_request(S, t), t, idParam) IN
    IF w.pass THEN pop_bulk(w.stacks, w.stack_id, countParam) ELSE Refused(w)

\* main.py:318-340
route_size(S, t, idParam) ==
    LET w == require_valid_stack_id(before_request(S, t), t, idParam) IN
    IF w.pass THEN size(w.stacks, w.stack_id) ELSE Refused(w)

\* main.py:343-374
route_peek(S, t, idParam) ==
    LET w == require_valid_stack_id(before_request(S, t), t, idParam) IN
    IF w.pass THEN peek(w.stacks, w.stack_id) ELSE Refused(w)

\* main.py:377-400
route_destroy(S, t, idParam) ==
    LET w == require_valid_stack_id(before_request(S, t), t, idParam) IN
    IF w.pass THEN destroy(w.stacks, w.stack_id) ELSE Refused(w)

\* list counting as a touch of every stack it lists
route_list_refreshing(S, ord, t) ==
    list_stacks([k \in DOMAIN before_request(S, t) |->
                    [before_request(S, t)[k] EXCEPT !.expiry = t + TTL]],
                KeepOrder(ord, DOMAIN before_request(S, t)))

\* main.py:403-423
route_list(S, ord, t) ==
    list_stacks(before_request(S, t), KeepOrder(ord, DOMAIN before_request(S, t)))

\* main.py:85-97
route_home(S, t) == home(before_request(S, t))

\* ---------------------------------------------------------------- actions

\* the stack a request names, -1 when its id is no integer
Named(idParam) == IF ParseInt(idParam).ok THEN ParseInt(idParam).n ELSE -1

\* the request is answered: app.stacks is as the route left it.  hit is the
\* set of stacks the request created or found by id.
Respond(hit, out) ==
    /\ stacks' = out.stacks
    /\ order' = DictOrder(order, DOMAIN out.stacks)
    /\ touched' = [k \in DOMAIN out.stacks |-> IF k \in hit THEN now ELSE touched[k]]
    /\ UNCHANGED <<now, threads, detached>>

\* the stacks a request that names idParam finds
Found(idParam) == {Named(idParam)} \cap DOMAIN before_request(stacks, now)

Create(new_id) ==
    Respond(IF route_create(stacks, now, new_id).code = 201 THEN {new_id} ELSE {},
            route_create(stacks, now, new_id))

Push(idParam, valueParam) ==
    Respond(Found(idParam),
            route_push(stacks, now, idParam, valueParam))

PushBulk(idParam, valuesParam) ==
    Respond(Found(idParam),
            route_push_bulk(stacks, now, idParam, valuesParam))

Pop(idParam) ==
    Respond(Found(idParam), route_pop(stacks, now, idParam))

PopBulk(idParam, countParam) ==
    Respond(Found(idParam),
            route_pop_bulk(stacks, now, idParam, countParam))

Size(idParam) ==
    Respond(Found(idParam), route_size(stacks, now, idParam))

Peek(idParam) ==
    Respond(Found(idParam), route_peek(stacks, now, idParam))

Destroy(idParam) ==
    Respond(Found(idParam),
            route_destroy(stacks, now, idParam))

List == Respond({}, route_list(stacks, order, now))

Home == Respond({}, route_home(stacks, now))

\* time passes: between two requests and, when requests run concurrently,
\* between two lines of a request
Tick ==
    /\ now < MaxTime
    /\ now' = now + 1
    /\ UNCHANGED <<stacks, order, touched, threads, detached>>

\* the worker threads of the server app.run starts
Threads == {1, 2}

\* a thread that has received no request
IdleThread ==
    [pc |-> "idle", op |-> "", id |-> -1, arg |-> 0,
     snap |-> <<>>, ints |-> <<>>, code |-> 0, text |-> ""]

Init ==
    /\ stacks = [k \in {} |-> 0]
    /\ order = <<>>
    /\ now = 0
    /\ touched = [k \in {} |-> 0]
    /\ threads = [th \in Threads |-> IdleThread]
    /\ detached = [k \in {} |-> 0]

Next ==
    \/ \E new_id \in IdSpace : Create(new_id)
    \/ \E idParam \in IdParams, valueParam \in ValueParams : Push(idParam, valueParam)
    \/ \E idParam \in IdParams, valuesParam \in BulkParams : PushBulk(idParam, valuesParam)
    \/ \E idParam \in IdParams : Pop(idParam)
    \/ \E idParam \in IdParams, countParam \in CountParams : PopBulk(idParam, countParam)
    \/ \E idParam \in IdParams : Size(idParam)
    \/ \E idParam \in IdParams : Peek(idParam)
    \/ \E idParam \in IdParams : Destroy(idParam)
    \/ List
    \/ Home
    \/ Tick

Spec == Init /\ [][Next]_vars

\* ------------------------------------------------- concurrent requests
\* app.run serves each request on a thread of its own and main.py takes no
\* lock, so the lines of two requests interleave.  Each thread is followed
\* through one request, a line of main.py that reads or writes app.stacks or
\* an array at a step; the requests name a stack by an integer identifier and
\* carry well-formed arguments.  An uncaught exception ends the request with
\* status 500.

\* the values the concurrent pushes carry
ConcValues == {QMin, QMax}

\* the requests a thread can receive: <<operation, stack_id, argument>>
ConcRequests ==
    {<<"create", -1, 0>>}
        \cup {<<"push", k, v>> : k \in IdSpace, v \in ConcValues}
        \cup {<<"pop", k, 0>> : k \in IdSpace}
        \cup {<<"pop_bulk", k, c>> : k \in IdSpace, c \in 1 .. MAX_STACK_SIZE}
        \cup {<<"size", k, 0>> : k \in IdSpace}

\* the entry object a thread holds under identifier k: in app.stacks, or
\* deleted from it since the thread took its reference
Held(k) == IF k \in DOMAIN stacks THEN stacks[k] ELSE detached[k]

\* the thread's request is over
Finish(th, code, text, ints) ==
    threads' = [threads EXCEPT ![th].pc = "done", ![th].code = code,
                               ![th].text = text, ![th].ints = ints]

\* the thread goes on to another line
Goto(th, pc) == threads' = [threads EXCEPT ![th].pc = pc]

\* an array method on the held object: the array is replaced by a
SetArray(k, a) ==
    /\ stacks' = IF k \in DOMAIN stacks
                 THEN [stacks EXCEPT ![k].array = a] ELSE stacks
    /\ detached' = IF k \in DOMAIN stacks
                   THEN detached ELSE [detached EXCEPT ![k].array = a]
    /\ UNCHANGED <<order, now, touched>>

\* main.py:426-429, 57  the request arrives; before_request starts the sweep
\* with list(app.stacks.items())
Receive(th, r) ==
    /\ threads[th].pc = "idle"
    /\ threads' = [threads EXCEPT ![th] =
           [IdleThread EXCEPT !.pc = "sweep", !.op = r[1], !.id = r[2],
                              !.arg = r[3], !.snap = order]]
    /\ UNCHANGED <<stacks, order, now, touched, detached>>

\* main.py:57-59  one turn of the sweep's loop over the listed items: del of
\* a key another thread has deleted since is a KeyError; after the loop the
\* view function is entered (main.py:118 for create, main.py:67-73 otherwise)
Sweep(th) ==
    LET me == threads[th]
        k  == Head(me.snap)
    IN  /\ me.pc = "sweep"
        /\ IF me.snap = <<>>
           THEN /\ Goto(th, IF me.op = "create" THEN "create_check" ELSE "lookup")
                /\ UNCHANGED <<stacks, order, now, touched, detached>>
           ELSE IF ~(Held(k).expiry < now)
           THEN /\ threads' = [threads EXCEPT ![th].snap = Tail(me.snap)]
                /\ UNCHANGED <<stacks, order, now, touched, detached>>
           ELSE IF k \notin DOMAIN stacks
           THEN /\ Finish(th, 500, "KeyError", <<>>)
                /\ UNCHANGED <<stacks, order, now, touched, detached>>
           ELSE /\ threads' = [threads EXCEPT ![th].snap = Tail(me.snap)]
                /\ stacks' = [j \in DOMAIN stacks \ {k} |-> stacks[j]]
                /\ order' = KeepOrder(order, DOMAIN stacks \ {k})
                /\ touched' = [j \in DOMAIN stacks \ {k} |-> touched[j]]
                /\ detached' = [j \in DOMAIN detached \cup {k} |->
                                   IF j = k THEN stacks[k] ELSE detached[j]]
                /\ UNCHANGED now

\* main.py:73-74  if stack_id not in app.stacks
Lookup(th) ==
    /\ threads[th].pc = "lookup"
    /\ IF threads[th].id \in DOMAIN stacks
       THEN Goto(th, "refresh")
       ELSE Finish(th, 404, "Stack not found", <<>>)
    /\ UNCHANGED <<stacks, order, now, touched, detached>>

\* main.py:76, 52  app.stacks[stack_id]["expiry"] = time.time() + 60 * 60
Refresh(th) ==
    LET k == threads[th].id IN
    /\ threads[th].pc = "refresh"
    /\ IF k \in DOMAIN stacks
       THEN /\ stacks' = refresh_stack_expiry(stacks, k, now)
            /\ touched' = [touched EXCEPT ![k] = now]
            /\ Goto(th, "fetch")
       ELSE /\ Finish(th, 500, "KeyError", <<>>)
            /\ UNCHANGED <<stacks, touched>>
    /\ UNCHANGED <<order, now, detached>>

\* main.py:167, 265, 310, 340  app.stacks[stack_id]["array"]; size answers
\* with its length at once
Fetch(th) ==
    LET me == threads[th] IN
    /\ me.pc = "fetch"
    /\ IF me.id \notin DOMAIN stacks
       THEN Finish(th, 500, "KeyError", <<>>)
       ELSE IF me.op = "size"
       THEN Finish(th, 200, "", <<Len(stacks[me.id].array)>>)
       ELSE Goto(th, CASE me.op = "push" -> "append"
                       [] me.op = "pop" -> "pop_check"
                       [] OTHER -> "bulk_check")
    /\ UNCHANGED <<stacks, order, now, touched, detached>>

\* main.py:170  stack.append(value)
StackAppend(th) ==
    LET me == threads[th] IN
    /\ me.pc = "append"
    /\ SetArray(me.id, Append(Held(me.id).array, me.arg))
    /\ Goto(th, "size_check")

\* main.py:174  if stack.buffer_info()[1] > MAX_STACK_SIZE
SizeCheck(th) ==
    /\ threads[th].pc = "size_check"
    /\ IF Len(Held(threads[th].id).array) > MAX_STACK_SIZE
       THEN Goto(th, "rollback")
       ELSE Finish(th, 200, "Ok", <<>>)
    /\ UNCHANGED <<stacks, order, now, touched, detached>>

\* main.py:175-176  stack.pop(); return "Stack overflow", 400
Rollback(th) ==
    LET stack == Held(threads[th].id).array IN
    /\ threads[th].pc = "rollback"
    /\ IF stack = <<>>
       THEN /\ Finish(th, 500, "IndexError", <<>>)
            /\ UNCHANGED <<stacks, order, now, touched, detached>>
       ELSE /\ SetArray(threads[th].id, ButLast(stack))
            /\ Finish(th, 400, "Stack overflow", <<>>)

\* main.py:267-268  if len(stack) <= 0: return "Stack underflow", 400
PopCheck(th) ==
    /\ threads[th].pc = "pop_check"
    /\ IF Len(Held(threads[th].id).array) <= 0
       THEN Finish(th, 400, "Stack underflow", <<>>)
       ELSE Goto(th, "pop_take")
    /\ UNCHANGED <<stacks, order, now, touched, detached>>

\* main.py:270  return str(stack.pop()), 200
PopTake(th) ==
    LET stack == Held(threads[th].id).array IN
    /\ threads[th].pc = "pop_take"
    /\ IF stack = <<>>
       THEN /\ Finish(th, 500, "IndexError", <<>>)
            /\ UNCHANGED <<stacks, order, now, touched, detached>>
       ELSE /\ SetArray(threads[th].id, ButLast(stack))
            /\ Finish(th, 200, "", <<stack[Len(stack)]>>)

\* main.py:312-313  if len(stack) < count: return "Stack underflow", 400
BulkCheck(th) ==
    /\ threads[th].pc = "bulk_check"
    /\ IF Len(Held(threads[th].id).array) < threads[th].arg
       THEN Finish(th, 400, "Stack underflow", <<>>)
       ELSE Goto(th, "bulk_take")
    /\ UNCHANGED <<stacks, order, now, touched, detached>>

\* main.py:315  one stack.pop() of [stack.pop() for _ in range(count)]; ints
\* are the items taken so far, lost when a pop raises IndexError
BulkTake(th) ==
    LET me    == threads[th]
        stack == Held(me.id).array
        taken == Append(me.ints, stack[Len(stack)])
    IN  /\ me.pc = "bulk_take"
        /\ IF stack = <<>>
           THEN /\ Finish(th, 500, "IndexError", me.ints)
                /\ UNCHANGED <<stacks, order, now, touched, detached>>
           ELSE /\ SetArray(me.id, ButLast(stack))
                /\ IF Len(taken) = me.arg
                   THEN Finish(th, 200, "", taken)
                   ELSE threads' = [threads EXCEPT ![th].ints = taken]

\* main.py:118-119  if len(app.stacks) >= MAX_STACKS
CreateCheck(th) ==
    /\ threads[th].pc = "create_check"
    /\ IF Cardinality(DOMAIN stacks) >= MAX_STACKS
       THEN Finish(th, 400, "Maximum number of stacks reached", <<MAX_STACKS>>)
       ELSE Goto(th, "create_insert")
    /\ UNCHANGED <<stacks, order, now, touched, detached>>

\* main.py:121-128  the new entry is stored under a generated identifier, one
\* no stack has had
CreateInsert(th) ==
    /\ threads[th].pc = "create_insert"
    /\ \E new_id \in IdSpace \ (DOMAIN stacks \cup DOMAIN detached) :
           /\ stacks' = [k \in DOMAIN stacks \cup {new_id} |->
                            IF k = new_id
                            THEN [array |-> <<>>, expiry |-> now + TTL]
                            ELSE stacks[k]]
           /\ order' = DictOrder(order, DOMAIN stacks \cup {new_id})
           /\ touched' = [k \in DOMAIN stacks \cup {new_id} |->
                             IF k = new_id THEN now ELSE touched[k]]
           /\ Finish(th, 201, "", <<new_id>>)
    /\ UNCHANGED <<now, detached>>

\* before the first concurrent request, at time 0, requests served one after
\* the other create stack 0 and push 0 on it
SetUp ==
    /\ now = 0
    /\ \A th \in Threads : threads[th].pc = "idle"
    /\ \/ Create(0)
       \/ Push(IntText(0), IntText(0))

NextConc ==
    \/ SetUp
    \/ \E th \in Threads, r \in ConcRequests : Receive(th, r)
    \/ \E th \in Threads : Sweep(th)
    \/ \E th \in Threads : Lookup(th)
    \/ \E th \in Threads : Refresh(th)
    \/ \E th \in Threads : Fetch(th)
    \/ \E th \in Threads : StackAppend(th)
    \/ \E th \in Threads : SizeCheck(th)
    \/ \E th \in Threads : Rollback(th)
    \/ \E th \in Threads : PopCheck(th)
    \/ \E th \in Threads : PopTake(th)
    \/ \E th \in Threads : BulkCheck(th)
    \/ \E th \in Threads : BulkTake(th)
    \/ \E th \in Threads : CreateCheck(th)
    \/ \E th \in Threads : CreateInsert(th)
    \/ Tick

SpecConc == Init /\ [][NextConc]_vars

\* ----------------------------------------------------------------- claims
\* The claims are stated of every state the requests can reach and, in it,
\* of every request a client can send next.

\* app.stacks as the next request's view finds it, after the sweep
Live == before_request(stacks, now)

\* the integers an array item can hold
Items == QMin .. QMax

\* the items that sequences are tried with: both ends of the range and 0
SomeItems == {QMin, 0, QMax}

\* the sequences over S of length lo..hi
SeqsOf(S, lo, hi) == UNION {[1 .. m -> S] : m \in lo .. hi}

\* s last first
RECURSIVE Reverse(_)
Reverse(s) == IF s = <<>> THEN <<>> ELSE Append(Reverse(Tail(s)), Head(s))

\* a "values" parameter carrying the integers ns
BulkText(ns) == [i \in DOMAIN ns |-> IntText(ns[i])]

\* C1: after each request, every stack in the store holds at most
\* MAX_STACK_SIZE elements.
C1_StackSizeBounded ==
    \A k \in DOMAIN stacks : Len(stacks[k].array) <= MAX_STACK_SIZE

\* a full store of full stacks
C1_Witness ==
    /\ Cardinality(DOMAIN stacks) = MAX_STACKS
    /\ \A k \in DOMAIN stacks : Len(stacks[k].array) = MAX_STACK_SIZE

\* n pushes of vs[1..n] one after another; ok when each answered 200 "Ok"
RECURSIVE PushEach(_, _, _, _)
PushEach(S, t, id, vs) ==
    IF vs = <<>> THEN [stacks |-> S, ok |-> TRUE]
    ELSE LET out  == route_push(S, t, IntText(id), IntText(Head(vs)))
             rest == PushEach(out.stacks, t, id, Tail(vs))
         IN  [stacks |-> rest.stacks,
              ok |-> out.code = 200 /\ out.text = "Ok" /\ rest.ok]

\* n pops one after another: what they returned, in order; ok when each
\* answered 200
RECURSIVE PopEach(_, _, _, _)
PopEach(S, t, id, n) ==
    IF n = 0 THEN [stacks |-> S, ok |-> TRUE, ints |-> <<>>]
    ELSE LET out  == route_pop(S, t, IntText(id))
             rest == PopEach(out.stacks, t, id, n - 1)
         IN  [stacks |-> rest.stacks, ok |-> out.code = 200 /\ rest.ok,
              ints |-> out.ints \o rest.ints]

\* C2 (LIFO law): on a freshly created stack, after n <= MAX_STACK_SIZE
\* pushes of v1..vn and nothing else, size returns n, peek returns vn, n pops
\* return vn, ..., v1 in that order, and the next pop fails with
\* "Stack underflow".
C2_Lifo ==
    \A new_id \in IdSpace :
        LET made == route_create(stacks, now, new_id) IN
        made.code = 201 =>
            \A vs \in SeqsOf(SomeItems, 0, MAX_STACK_SIZE) :
                LET n      == Len(vs)
                    pushed == PushEach(made.stacks, now, new_id, vs)
                    sized  == route_size(pushed.stacks, now, IntText(new_id))
                    peeked == route_peek(pushed.stacks, now, IntText(new_id))
                    popped == PopEach(pushed.stacks, now, new_id, n)
                    last   == route_pop(popped.stacks, now, IntText(new_id))
                IN  /\ pushed.ok
                    /\ sized.code = 200 /\ sized.ints = <<n>>
                    /\ n > 0 => peeked.code = 200 /\ peeked.ints = <<vs[n]>>
                    /\ popped.ok /\ popped.ints = Reverse(vs)
                    /\ last.code = 400 /\ last.text = "Stack underflow"
                    /\ last.stacks[new_id].array = <<>>

\* a stack that n = MAX_STACK_SIZE pushes of different values have filled,
\* whose pops return them last first
C2_Witness ==
    \E k \in DOMAIN Live :
        /\ Len(Live[k].array) = MAX_STACK_SIZE
        /\ Live[k].array[1] # Live[k].array[MAX_STACK_SIZE]
        /\ PopEach(stacks, now, k, MAX_STACK_SIZE).ints = Reverse(Live[k].array)

\* C3: a push of an in-range value on a stack of exactly MAX_STACK_SIZE
\* elements fails with "Stack overflow" and leaves the stack's values as
\* they were; on a stack of fewer it succeeds and the value is on top.
C3_PushAtCapacity ==
    \A k \in DOMAIN Live, v \in Items :
        LET before == Live[k].array
            out    == route_push(stacks, now, IntText(k), IntText(v))
        IN  IF Len(before) = MAX_STACK_SIZE
            THEN /\ out.code = 400 /\ out.text = "Stack overflow"
                 /\ out.stacks[k].array = before
            ELSE /\ Len(before) < MAX_STACK_SIZE
                 /\ out.code = 200 /\ out.text = "Ok"
                 /\ out.stacks[k].array = Append(before, v)

\* a full stack, on which a push is refused
C3_Witness ==
    \E k \in DOMAIN Live :
        /\ Len(Live[k].array) = MAX_STACK_SIZE
        /\ route_push(stacks, now, IntText(k), IntText(QMax)).text = "Stack overflow"

\* C4: push_bulk of in-range b1..bm on a stack of size s: when
\* s + m > MAX_STACK_SIZE it fails with "Stack overflow" and the stack is its
\* old values followed by b1..b(MAX_STACK_SIZE - s); otherwise it succeeds
\* and the stack is its old values followed by b1..bm.
C4_PushBulkPrefix ==
    \A k \in DOMAIN Live, b \in SeqsOf(SomeItems, 1, MaxBatch) :
        LET before == Live[k].array
            s      == Len(before)
            out    == route_push_bulk(stacks, now, IntText(k), BulkText(b))
        IN  IF s + Len(b) > MAX_STACK_SIZE
            THEN /\ out.code = 400 /\ out.text = "Stack overflow"
                 /\ out.stacks[k].array = before \o SubSeq(b, 1, MAX_STACK_SIZE - s)
                 /\ Len(out.stacks[k].array) = MAX_STACK_SIZE
            ELSE /\ out.code = 200 /\ out.text = "Ok"
                 /\ out.stacks[k].array = before \o b

\* a stack with room for a part of a batch only: the batch overflows after
\* its first items went in
C4_Witness ==
    \E k \in DOMAIN Live, b \in SeqsOf(SomeItems, 2, MaxBatch) :
        LET out == route_push_bulk(stacks, now, IntText(k), BulkText(b)) IN
        /\ 0 < Len(Live[k].array)
        /\ Len(Live[k].array) < MAX_STACK_SIZE
        /\ out.text = "Stack overflow"
        /\ Len(out.stacks[k].array) > Len(Live[k].array)

\* C5: whenever push_bulk fails with "Value is too large" or "All values
\* must be integers", no element of the batch has been appended: the stack's
\* values are those before the call.
C5_BulkRangeCheckedFirst ==
    \A k \in DOMAIN Live, b \in BulkParams :
        LET out == route_push_bulk(stacks, now, IntText(k), b) IN
        out.text \in {"Value is too large", "All values must be integers"}
            => out.stacks[k].array = Live[k].array

\* C6: pop_bulk with count greater than the size of the stack fails with
\* "Stack underflow" and removes nothing.
C6_PopBulkUnderflow ==
    \A k \in DOMAIN Live :
        \A count \in (Len(Live[k].array) + 1) .. (MAX_STACK_SIZE + 1) :
            LET out == route_pop_bulk(stacks, now, IntText(k), IntText(count)) IN
            /\ out.code = 400 /\ out.text = "Stack underflow"
            /\ out.ints = <<>>
            /\ DOMAIN out.stacks = DOMAIN Live
            /\ \A j \in DOMAIN Live : out.stacks[j].array = Live[j].array

\* a stack that holds something and is asked for more
C6_Witness ==
    \E k \in DOMAIN Live :
        /\ Len(Live[k].array) > 0
        /\ route_pop_bulk(stacks, now, IntText(k),
                          IntText(Len(Live[k].array) + 1)).text = "Stack underflow"

\* C7: pop_bulk with 0 <= count <= size succeeds, returns the top count
\* elements most recently pushed first, as count successive pops would, and
\* leaves the size - count bottom elements as they were; with count = 0 it
\* returns nothing and changes nothing.
C7_PopBulkOrder ==
    \A k \in DOMAIN Live :
        \A count \in 0 .. Len(Live[k].array) :
            LET before == Live[k].array
                n      == Len(before)
                out    == route_pop_bulk(stacks, now, IntText(k), IntText(count))
                pops   == PopEach(stacks, now, k, count)
            IN  /\ out.code = 200
                /\ out.ints = [i \in 1 .. count |-> before[n - i + 1]]
                /\ pops.ok /\ out.ints = pops.ints
                /\ out.stacks[k].array = SubSeq(before, 1, n - count)
                /\ out.stacks[k].array = pops.stacks[k].array
                /\ count = 0 => out.ints = <<>> /\ out.stacks[k].array = before

\* a stack whose two top elements differ, popped together
C7_Witness ==
    \E k \in DOMAIN Live :
        LET before == Live[k].array
            out    == route_pop_bulk(stacks, now, IntText(k), IntText(2))
        IN  /\ Len(before) >= 2
            /\ before[Len(before)] # before[Len(before) - 1]
            /\ out.code = 200
            /\ out.ints = <<before[Len(before)], before[Len(before) - 1]>>

\* C8: the store never holds more than MAX_STACKS entries; create succeeds
\* and inserts a new empty stack when fewer than MAX_STACKS entries remain
\* after the sweep, fails with "Maximum number of stacks reached" and inserts
\* nothing when MAX_STACKS remain; after one of MAX_STACKS stacks is
\* destroyed the next create succeeds.
C8_StoreBounded ==
    /\ Cardinality(DOMAIN stacks) <= MAX_STACKS
    /\ \A new_id \in IdSpace :
           LET out == route_create(stacks, now, new_id) IN
           IF Cardinality(DOMAIN Live) < MAX_STACKS
           THEN /\ out.code = 201 /\ out.ints = <<new_id>>
                /\ new_id \in DOMAIN out.stacks
                /\ out.stacks[new_id].array = <<>>
                /\ Cardinality(DOMAIN out.stacks) <= MAX_STACKS
           ELSE /\ Cardinality(DOMAIN Live) = MAX_STACKS
                /\ out.code = 400 /\ out.text = "Maximum number of stacks reached"
                /\ out.stacks = Live
    /\ Cardinality(DOMAIN Live) = MAX_STACKS =>
           \A k \in DOMAIN Live, new_id \in IdSpace :
               LET gone == route_destroy(stacks, now, IntText(k)) IN
               /\ gone.code = 200
               /\ route_create(gone.stacks, now, new_id).code = 201

\* a full store: create is refused, and succeeds once a stack is destroyed
C8_Witness ==
    /\ Cardinality(DOMAIN Live) = MAX_STACKS
    /\ \E new_id \in IdSpace \ DOMAIN Live, k \in DOMAIN Live :
           /\ route_create(stacks, now, new_id).code = 400
           /\ route_create(route_destroy(stacks, now, IntText(k)).stacks,
                           now, new_id).code = 201

\* the stacks no request has addressed by id for longer than TTL
Idle == {k \in DOMAIN stacks : now - touched[k] > TTL}

\* C9 (idle reclamation): a stack that no request has addressed by id for
\* longer than TTL since its creation or last touch is removed by the first
\* request of any kind that arrives: it is absent from list and every
\* operation on its id fails with "Stack not found"; a stack touched no
\* longer than TTL ago is removed by no request's sweep.
C9_IdleReclaimed ==
    \* the sweep of the request that arrives removes the idle stacks, those only
    /\ DOMAIN Live = DOMAIN stacks \ Idle
    /\ \A k \in DOMAIN Live : Live[k] = stacks[k]
    \* so every request leaves the store without them and with the others,
    \* but for the stack it destroys or creates itself
    /\ \A id \in IdParams :
           /\ \A v \in ValueParams :
                  DOMAIN route_push(stacks, now, id, v).stacks = DOMAIN stacks \ Idle
           /\ \A b \in BulkParams :
                  DOMAIN route_push_bulk(stacks, now, id, b).stacks = DOMAIN stacks \ Idle
           /\ \A c \in CountParams :
                  DOMAIN route_pop_bulk(stacks, now, id, c).stacks = DOMAIN stacks \ Idle
           /\ DOMAIN route_pop(stacks, now, id).stacks = DOMAIN stacks \ Idle
           /\ DOMAIN route_size(stacks, now, id).stacks = DOMAIN stacks \ Idle
           /\ DOMAIN route_peek(stacks, now, id).stacks = DOMAIN stacks \ Idle
           /\ DOMAIN route_destroy(stacks, now, id).stacks
                  = (DOMAIN stacks \ Idle) \ {Named(id)}
    /\ DOMAIN route_home(stacks, now).stacks = DOMAIN stacks \ Idle
    /\ LET listed == route_list(stacks, order, now) IN
           /\ DOMAIN listed.stacks = DOMAIN stacks \ Idle
           /\ listed.ints[1] = Cardinality(DOMAIN stacks \ Idle)
           /\ Len(listed.ints) = 2 + 4 * Cardinality(DOMAIN stacks \ Idle)
    /\ \A new_id \in IdSpace :
           LET made == route_create(stacks, now, new_id) IN
           /\ DOMAIN stacks \ Idle \subseteq DOMAIN made.stacks
           /\ DOMAIN made.stacks \subseteq (DOMAIN stacks \ Idle) \cup {new_id}
           /\ new_id \in Idle \cap DOMAIN made.stacks =>
                  made.stacks[new_id] = [array |-> <<>>, expiry |-> now + TTL]
    \* an operation on the id of a stack that is gone fails with NotFound, one
    \* on the id of a stack that is there does not
    /\ \A id \in IdSpace :
           /\ \A v \in ValueParams :
                  (route_push(stacks, now, IntText(id), v).code = 404)
                      <=> (id \notin DOMAIN stacks \ Idle)
           /\ \A b \in BulkParams :
                  (route_push_bulk(stacks, now, IntText(id), b).code = 404)
                      <=> (id \notin DOMAIN stacks \ Idle)
           /\ \A c \in CountParams :
                  (route_pop_bulk(stacks, now, IntText(id), c).code = 404)
                      <=> (id \notin DOMAIN stacks \ Idle)
           /\ (route_pop(stacks, now, IntText(id)).code = 404)
                  <=> (id \notin DOMAIN stacks \ Idle)
           /\ (route_size(stacks, now, IntText(id)).code = 404)
                  <=> (id \notin DOMAIN stacks \ Idle)
           /\ (route_peek(stacks, now, IntText(id)).code = 404)
                  <=> (id \notin DOMAIN stacks \ Idle)
           /\ (route_destroy(stacks, now, IntText(id)).code = 404)
                  <=> (id \notin DOMAIN stacks \ Idle)

\* one stack idle for longer than TTL beside one idle for exactly TTL
C9_Witness ==
    \E k, j \in DOMAIN stacks :
        /\ now - touched[k] > TTL
        /\ now - touched[j] = TTL
        /\ route_size(stacks, now, IntText(k)).code = 404
        /\ route_size(stacks, now, IntText(j)).code = 200

\* the stack is due TTL after t and the other stacks when they were
Refreshed(out, k, t) ==
    /\ out.stacks[k].expiry = t + TTL
    /\ \A j \in DOMAIN Live \ {k} :
           /\ j \in DOMAIN out.stacks
           /\ out.stacks[j].expiry = Live[j].expiry

\* C10: every successful push, push_bulk, pop, pop_bulk, peek or size on an
\* existing stack sets that stack's expiry to the time of the call plus TTL
\* and leaves the expiry of every other stack unchanged.
C10_TouchRefreshes ==
    \A k \in DOMAIN Live :
        /\ \A v \in ValueParams :
               LET out == route_push(stacks, now, IntText(k), v) IN
               out.code = 200 => Refreshed(out, k, now)
        /\ \A b \in BulkParams :
               LET out == route_push_bulk(stacks, now, IntText(k), b) IN
               out.code = 200 => Refreshed(out, k, now)
        /\ \A c \in CountParams :
               LET out == route_pop_bulk(stacks, now, IntText(k), c) IN
               out.code = 200 => Refreshed(out, k, now)
        /\ LET out == route_pop(stacks, now, IntText(k)) IN
               out.code = 200 => Refreshed(out, k, now)
        /\ LET out == route_peek(stacks, now, IntText(k)) IN
               out.code = 200 => Refreshed(out, k, now)
        /\ LET out == route_size(stacks, now, IntText(k)) IN
               out.code = 200 /\ Refreshed(out, k, now)

\* two stacks due at different times, the earlier one read by size and peek
C10_Witness ==
    \E k, j \in DOMAIN Live :
        /\ Live[k].expiry < Live[j].expiry
        /\ Live[j].expiry < now + TTL
        /\ route_size(stacks, now, IntText(k)).code = 200
        /\ route_peek(stacks, now, IntText(k)).code = 200

\* C11: list changes neither the values nor the expiry of any stack that
\* survives its sweep, so no number of list requests extends the life of a
\* stack; it reports the number of entries in the store and the size of each.
C11_ListReadOnly ==
    LET listed == route_list(stacks, order, now)
        ord    == KeepOrder(order, DOMAIN Live)
        n      == Cardinality(DOMAIN Live)
    IN  /\ listed.code = 200
        /\ listed.stacks = Live
        \* a second list, at once or later, finds what the first request's
        \* sweep would have left then
        /\ \A t \in now .. (MaxTime + TTL + 1) :
               route_list(listed.stacks, ord, t).stacks = before_request(stacks, t)
        /\ Len(ord) = n
        /\ {ord[i] : i \in 1 .. n} = DOMAIN Live
        /\ Len(listed.ints) = 2 + 4 * n
        /\ listed.ints[1] = n
        /\ listed.ints[2] = MAX_STACKS
        /\ \A i \in 1 .. n :
               /\ listed.ints[4 * i - 1] = i - 1
               /\ listed.ints[4 * i] = Len(Live[ord[i]].array)
               /\ listed.ints[4 * i + 1] = MAX_STACK_SIZE
               /\ listed.ints[4 * i + 2] * MAX_STACK_SIZE
                      \in (100 * Len(Live[ord[i]].array) - MAX_STACK_SIZE)
                           .. (100 * Len(Live[ord[i]].array) + MAX_STACK_SIZE)

\* a full store listed beside a stack that expired, with a stack that holds
\* something and is due before now + TTL
C11_Witness ==
    /\ Cardinality(DOMAIN Live) >= 1
    /\ DOMAIN stacks # DOMAIN Live
    /\ \E k \in DOMAIN Live :
           /\ Live[k].expiry < now + TTL
           /\ Len(Live[k].array) > 0
           /\ route_list(stacks, order, now).ints[4] = Len(Live[k].array)

\* the entry a successful create inserts
Fresh(t) == [array |-> <<>>, expiry |-> t + TTL]

\* C12 as claimed: a successful create leaves every entry that was in the
\* store after the sweep unchanged, for every identifier the generator can
\* return; the only change is one added empty stack due at now + TTL.
C12_CreateLeavesAll ==
    \A new_id \in IdSpace :
        LET made == route_create(stacks, now, new_id) IN
        made.code = 201 =>
            /\ \A k \in DOMAIN Live :
                   k \in DOMAIN made.stacks /\ made.stacks[k] = Live[k]
            /\ new_id \in DOMAIN made.stacks

\* C12 as amended: a successful create leaves every entry under another
\* identifier than the one it returns unchanged; under the returned
\* identifier there is an empty stack due at now + TTL, added when the
\* identifier was free, put in the place of the entry it named otherwise.
C12_CreateLeavesOthers ==
    \A new_id \in IdSpace :
        LET made == route_create(stacks, now, new_id) IN
        IF made.code = 201
        THEN /\ DOMAIN made.stacks = DOMAIN Live \cup {new_id}
             /\ \A k \in DOMAIN Live \ {new_id} : made.stacks[k] = Live[k]
             /\ made.stacks[new_id] = Fresh(now)
             /\ made.ints = <<new_id>>
        ELSE made.stacks = Live

\* create returns a free identifier beside a stack that holds something, and
\* would replace that stack had it returned its identifier
C12_Witness ==
    \E k \in DOMAIN Live, new_id \in IdSpace \ DOMAIN Live :
        /\ Len(Live[k].array) > 0
        /\ Live[k].expiry < now + TTL
        /\ route_create(stacks, now, new_id).code = 201
        /\ route_create(stacks, now, k).stacks[k] = Fresh(now)

\* a request that names stack k finds no such stack in store S at time t and
\* leaves the swept store as it is
GoneFrom(S, t, k) ==
    LET id == IntText(k)
        is404(out) == /\ out.code = 404
                      /\ out.text = "Stack not found"
                      /\ out.ints = <<>>
                      /\ out.stacks = before_request(S, t)
    IN  /\ \A v \in ValueParams : is404(route_push(S, t, id, v))
        /\ \A vs \in BulkParams : is404(route_push_bulk(S, t, id, vs))
        /\ is404(route_pop(S, t, id))
        /\ \A c \in CountParams : is404(route_pop_bulk(S, t, id, c))
        /\ is404(route_size(S, t, id))
        /\ is404(route_peek(S, t, id))
        /\ is404(route_destroy(S, t, id))

\* C13: destroy of an existing stack removes exactly its entry and leaves
\* every other entry unchanged; after it every operation on that identifier,
\* a second destroy too, fails with "Stack not found" and changes nothing,
\* until a later create returns the identifier again.
C13_DestroyExact ==
    \A k \in DOMAIN Live :
        LET gone == route_destroy(stacks, now, IntText(k)) IN
        /\ gone.code = 200
        /\ gone.text = "Ok"
        /\ DOMAIN gone.stacks = DOMAIN Live \ {k}
        /\ \A j \in DOMAIN gone.stacks : gone.stacks[j] = Live[j]
        /\ \A t \in now .. (MaxTime + 1) : GoneFrom(gone.stacks, t, k)
        /\ \A t \in now .. (MaxTime + 1) :
               LET again == route_create(gone.stacks, t, k) IN
               again.code = 201 =>
                   /\ route_size(again.stacks, t, IntText(k)).code = 200
                   /\ route_destroy(again.stacks, t, IntText(k)).code = 200

\* a stack that holds something is destroyed beside another live stack
C13_Witness ==
    \E k \in DOMAIN Live, j \in DOMAIN Live :
        /\ j # k
        /\ Len(Live[k].array) > 0
        /\ Len(Live[j].array) > 0
        /\ route_destroy(stacks, now, IntText(k)).stacks = [i \in {j} |-> Live[j]]

\* C14: for every contents of a stack and every 0 < count <= size, pop_bulk
\* of count followed by push_bulk of the returned values in reverse order
\* leaves the stack with its original sequence of values.
C14_PopPushRoundTrip ==
    \A k \in DOMAIN Live :
        \A count \in 1 .. Len(Live[k].array) :
            LET popped == route_pop_bulk(stacks, now, IntText(k), IntText(count))
                pushed == route_push_bulk(popped.stacks, now, IntText(k),
                                          BulkText(Reverse(popped.ints)))
            IN  /\ popped.code = 200
                /\ Len(popped.ints) = count
                /\ pushed.code = 200
                /\ pushed.stacks[k].array = Live[k].array
                /\ \A j \in DOMAIN Live \ {k} : pushed.stacks[j] = Live[j]

\* a full stack of two different values is popped whole and pushed back
C14_Witness ==
    \E k \in DOMAIN Live :
        /\ Len(Live[k].array) = MAX_STACK_SIZE
        /\ Live[k].array[1] # Live[k].array[MAX_STACK_SIZE]
        /\ route_pop_bulk(stacks, now, IntText(k),
                          IntText(MAX_STACK_SIZE)).stacks[k].array = <<>>
        /\ route_push_bulk(
               route_pop_bulk(stacks, now, IntText(k), IntText(MAX_STACK_SIZE)).stacks,
               now, IntText(k),
               BulkText(Reverse(route_pop_bulk(stacks, now, IntText(k),
                                               IntText(MAX_STACK_SIZE)).ints))).code = 200

\* the lines of an id-addressed request after its lookup found the stack
InProgress ==
    {"refresh", "fetch", "append", "size_check", "rollback",
     "pop_check", "pop_take", "bulk_check", "bulk_take"}

\* C15: under concurrent requests, once an id-addressed request has found
\* its stack in the store, no other request's sweep removes the entry before
\* the request has refreshed the expiry and finished: the request's target is
\* in the store for as long as the operation is in progress.
C15_EntryKeptWhileInProgress ==
    \A th \in Threads :
        threads[th].pc \in InProgress => threads[th].id \in DOMAIN stacks

\* C16: under every interleaving of concurrent create requests the number of
\* entries in the store never exceeds MAX_STACKS.
C16_ConcurrentCreatesBounded ==
    Cardinality(DOMAIN stacks) <= MAX_STACKS

\* C17: under every interleaving with a concurrent pop or pop_bulk on the same
\* stack, a pop_bulk that found its stack either removes and returns exactly
\* count elements or fails with "Stack underflow" having removed none; it
\* never removes some elements and then fails because the stack ran empty.
C17_PopBulkAtomic ==
    \A th \in Threads :
        LET me == threads[th] IN
        (me.pc = "done" /\ me.op = "pop_bulk" /\ me.code # 404
             /\ me.text # "KeyError") =>
            \/ me.code = 200 /\ Len(me.ints) = me.arg
            \/ me.code = 400 /\ me.text = "Stack underflow" /\ me.ints = <<>>

\* set-up pushes only 0 and the concurrent pushes carry other values: the 0s
\* of an array are what it held before the concurrent pushes
IsZero(n) == n = 0

\* C18: two concurrent pushes to one stack end with the stack contents and
\* the two results of running them in some serial order (so a push that
\* reports Ok has its value on the stack and one that reports "Stack
\* overflow" removed only its own value), and no concurrent size observes
\* more than MAX_STACK_SIZE elements.
C18_PushesSerializable ==
    /\ \A first \in Threads : \A second \in Threads \ {first} :
           LET one == threads[first]
               two == threads[second]
               k   == one.id
           IN  (/\ one.pc = "done" /\ two.pc = "done"
                /\ one.op = "push" /\ two.op = "push"
                /\ two.id = k /\ k \in DOMAIN stacks
                /\ one.code \in {200, 400} /\ two.code \in {200, 400}) =>
                   \E a \in Threads : \E b \in Threads \ {a} :
                       LET S0 == [j \in {k} |->
                                     [array  |-> SelectSeq(stacks[k].array, IsZero),
                                      expiry |-> now]]
                           r1 == push(S0, k, IntText(threads[a].arg))
                           r2 == push(r1.stacks, k, IntText(threads[b].arg))
                       IN  /\ r1.code = threads[a].code
                           /\ r1.text = threads[a].text
                           /\ r2.code = threads[b].code
                           /\ r2.text = threads[b].text
                           /\ r2.stacks[k].array = stacks[k].array
    /\ \A th \in Threads :
           (threads[th].pc = "done" /\ threads[th].op = "size"
                /\ threads[th].code = 200) =>
               threads[th].ints[1] <= MAX_STACK_SIZE

\* the stacks whose expiry is strictly before the time of the request
Expired == {k \in DOMAIN stacks : stacks[k].expiry < now}

\* C19: the sweep before each request removes exactly the entries with
\* expiry < now; an entry with expiry >= now is kept with its values and
\* expiry; no entry with expiry < now remains after it, so no operation reads
\* or changes a stack that had expired when its request began.
C19_SweepExact ==
    /\ DOMAIN Live = DOMAIN stacks \ Expired
    /\ \A k \in DOMAIN stacks : stacks[k].expiry >= now => Live[k] = stacks[k]
    /\ \A k \in DOMAIN Live : ~(Live[k].expiry < now)
    \* an operation on an expired stack finds nothing and returns no value
    /\ \A k \in Expired : GoneFrom(stacks, now, k)
    \* an operation on another stack, list and home leave no expired stack
    /\ \A id \in IdParams :
           /\ \A v \in ValueParams :
                  DOMAIN route_push(stacks, now, id, v).stacks \cap Expired = {}
           /\ \A c \in CountParams :
                  DOMAIN route_pop_bulk(stacks, now, id, c).stacks \cap Expired = {}
           /\ DOMAIN route_pop(stacks, now, id).stacks \cap Expired = {}
           /\ DOMAIN route_peek(stacks, now, id).stacks \cap Expired = {}
    /\ route_list(stacks, order, now).ints[1] = Cardinality(DOMAIN stacks \ Expired)
    /\ DOMAIN route_home(stacks, now).stacks \cap Expired = {}
    \* create keeps none of them: under an expired stack's identifier it can
    \* only put its own new stack
    /\ \A new_id \in IdSpace :
           \A k \in DOMAIN route_create(stacks, now, new_id).stacks \cap Expired :
               /\ k = new_id
               /\ route_create(stacks, now, new_id).stacks[k] = Fresh(now)

\* one stack expired beside one that is due at this very time and is kept
C19_Witness ==
    \E k \in Expired, j \in DOMAIN stacks :
        /\ stacks[j].expiry = now
        /\ Len(stacks[k].array) > 0
        /\ Live = [i \in {j} |-> stacks[j]]
        /\ route_peek(stacks, now, IntText(k)).code = 404
        /\ route_peek(stacks, now, IntText(j)).code # 404

\* the failures of an operation on a stack that was found
ListedFailure(out) ==
    /\ out.code = 400
    /\ out.text \in {"Value is too large", "Value must be an integer",
                      "All values must be integers", "Values must be provided",
                      "Stack overflow", "Stack underflow", "Stack is empty"}

\* C20 as claimed: a push, push_bulk, pop, pop_bulk or peek on an existing
\* stack that fails for its value, its missing input, the capacity, underflow
\* or emptiness leaves the stack's expiry as it was before the call.
C20_FailureKeepsExpiry ==
    \A k \in DOMAIN Live :
        /\ \A v \in ValueParams :
               LET out == route_push(stacks, now, IntText(k), v) IN
               ListedFailure(out) => out.stacks[k].expiry = Live[k].expiry
        /\ \A b \in BulkParams :
               LET out == route_push_bulk(stacks, now, IntText(k), b) IN
               ListedFailure(out) => out.stacks[k].expiry = Live[k].expiry
        /\ \A c \in CountParams :
               LET out == route_pop_bulk(stacks, now, IntText(k), c) IN
               ListedFailure(out) => out.stacks[k].expiry = Live[k].expiry
        /\ LET out == route_pop(stacks, now, IntText(k)) IN
               ListedFailure(out) => out.stacks[k].expiry = Live[k].expiry
        /\ LET out == route_peek(stacks, now, IntText(k)) IN
               ListedFailure(out) => out.stacks[k].expiry = Live[k].expiry

\* C20 as amended: a push, push_bulk, pop, pop_bulk or peek that finds its
\* stack sets the stack's expiry to now + TTL whether it then succeeds or
\* fails, and leaves the expiry of every other stack; a request whose
\* identifier is no integer or names no stack changes no expiry.
C20_FailureRefreshes ==
    /\ \A k \in DOMAIN Live :
           /\ \A v \in ValueParams :
                  LET out == route_push(stacks, now, IntText(k), v) IN
                  out.code # 200 => out.code = 400 /\ Refreshed(out, k, now)
           /\ \A b \in BulkParams :
                  LET out == route_push_bulk(stacks, now, IntText(k), b) IN
                  out.code # 200 => out.code = 400 /\ Refreshed(out, k, now)
           /\ \A c \in CountParams :
                  LET out == route_pop_bulk(stacks, now, IntText(k), c) IN
                  out.code # 200 => out.code = 400 /\ Refreshed(out, k, now)
           /\ LET out == route_pop(stacks, now, IntText(k)) IN
                  out.code # 200 => out.code = 400 /\ Refreshed(out, k, now)
           /\ LET out == route_peek(stacks, now, IntText(k)) IN
                  out.code # 200 => out.code = 400 /\ Refreshed(out, k, now)
    /\ \A id \in IdParams :
           Named(id) \notin DOMAIN Live =>
               /\ \A v \in ValueParams : route_push(stacks, now, id, v).stacks = Live
               /\ \A b \in BulkParams : route_push_bulk(stacks, now, id, b).stacks = Live
               /\ \A c \in CountParams : route_pop_bulk(stacks, now, id, c).stacks = Live
               /\ route_pop(stacks, now, id).stacks = Live
               /\ route_peek(stacks, now, id).stacks = Live

\* pop and peek fail on an empty stack that was due before now + TTL and is
\* due at now + TTL after them
C20_Witness ==
    \E k \in DOMAIN Live :
        /\ Live[k].array = <<>>
        /\ Live[k].expiry < now + TTL
        /\ route_pop(stacks, now, IntText(k)).text = "Stack underflow"
        /\ route_pop(stacks, now, IntText(k)).stacks[k].expiry = now + TTL
        /\ route_peek(stacks, now, IntText(k)).text = "Stack is empty"
        /\ route_peek(stacks, now, IntText(k)).stacks[k].expiry = now + TTL

=============================================================================
